---- MODULE Spec2Model ----
(***************************************************************************)
(* A model of src/lib.rs of time-machine: TimeMachine<S, F, R, T>, a       *)
(* container that records timestamped forward deltas, applies and undoes   *)
(* them as it seeks along the timeline, and can evict old history.         *)
(*                                                                         *)
(* The state capability is the one the repository's tests supply:          *)
(* TestTimeMachineState(i32) with the deltas Add/Sub/Mul/Div.  The         *)
(* timestamp type is u32, as in the tests.  Within the bounds below every  *)
(* value stays far inside the i32 range, so integer width does not matter. *)
(***************************************************************************)
EXTENDS Integers, Sequences, FiniteSets, TLC

\* Largest timestamp the calls are given (timestamps are 0..MaxTime).
MaxTime == 2
\* Largest number of accepted change calls in one behaviour.
MaxChanges == 2
\* Largest number of accepted change calls in one behaviour in which the
\* loops are run one iteration per step.
MaxStepChanges == 2
\* The initial state every test hands to TimeMachine::new.
Initial == 5

Times == 0..MaxTime

\* Forward deltas the calls are given.  Add and Mul by a non-zero number
\* obey the round-trip law on i32 (their reverses are Sub and Div).
Deltas == { [op |-> "Add", n |-> 3], [op |-> "Mul", n |-> 2] }

\* Option<T>: None is the empty sequence, Some(x) is <<x>>.
None == << >>
Some(x) == << x >>

\* result::Result<(), Error<T>>
Ok == << "Ok" >>
TimeEvicted(requested, boundary) == << "TimeEvicted", requested, boundary >>

VARIABLES
    current,    \* TimeMachine.current: the state value (the i32 inside)
    reverse,    \* TimeMachine.reverse: VecDeque, front first, back last
    forward,    \* TimeMachine.forward: Vec, the top (popped first) is last
    oldest,     \* TimeMachine.oldest: Option<T>
    hist,       \* observer: the accepted changes, in the order of the calls
    lastCall,   \* observer: the most recent public call and what it returned
    lastUntil,  \* observer: the argument of the most recent eviction call
    discarded,  \* observer: the ordinals of the evicted changes, in eviction order
    loop        \* the call in progress when the loops are run one iteration at a time

vars == << current, reverse, forward, oldest, hist, lastCall, lastUntil, discarded, loop >>

----------------------------------------------------------------------------
\* The state capability of the tests.

\* i32 division truncates toward zero.
TruncDiv(a, b) ==
    LET aa == IF a < 0 THEN -a ELSE a
        bb == IF b < 0 THEN -b ELSE b
        q  == aa \div bb
    IN  IF (a < 0) = (b < 0) THEN q ELSE -q

\* TestTimeMachineState::apply: the new state and the delta it returns.
apply(s, delta) ==
    CASE delta.op = "Add" -> [state |-> s + delta.n, ret |-> [op |-> "Sub", n |-> delta.n]]
      [] delta.op = "Sub" -> [state |-> s - delta.n, ret |-> [op |-> "Add", n |-> delta.n]]
      [] delta.op = "Mul" -> [state |-> s * delta.n, ret |-> [op |-> "Div", n |-> delta.n]]
      [] delta.op = "Div" -> [state |-> TruncDiv(s, delta.n), ret |-> [op |-> "Mul", n |-> delta.n]]

apply_forward(s, delta) == apply(s, delta)

apply_reverse(s, delta) == apply(s, delta).state

----------------------------------------------------------------------------
\* The machine as a value.  nfwd and nrev count the apply_forward and
\* apply_reverse invocations made on it since they were last reset.
\* Entries carry the ordinal of the change call that created them (id), so
\* that two entries with equal timestamp and delta stay distinguishable, as
\* the owned values of the Rust code are.

new(initial) ==
    [current |-> initial, reverse |-> << >>, forward |-> << >>, oldest |-> None,
     nfwd |-> 0, nrev |-> 0]

Pop(s) == SubSeq(s, 1, Len(s) - 1)
Top(s) == s[Len(s)]

\* check_oldest refusing the boundary itself.
check_oldest_ge(m, at) ==
    IF m.oldest # None
    THEN LET i == m.oldest[1]
         IN  IF i >= at THEN TimeEvicted(at, i) ELSE Ok
    ELSE Ok

check_oldest(m, at) ==
    IF m.oldest # None
    THEN LET i == m.oldest[1]
         IN  IF i > at THEN TimeEvicted(at, i) ELSE Ok
    ELSE Ok

\* move_backward_to moving entries back without undoing them.
RECURSIVE move_backward_to_no_undo(_, _)
move_backward_to_no_undo(m, at) ==
    IF m.reverse = << >> THEN m
    ELSE LET e == Top(m.reverse)
             popped == [m EXCEPT !.reverse = Pop(m.reverse)]
         IN  IF e.time <= at
             THEN [popped EXCEPT !.reverse = Append(@, e)]
             ELSE move_backward_to_no_undo(
                    [popped EXCEPT !.forward = Append(@, [time |-> e.time, delta |-> e.f, id |-> e.id])],
                    at)

\* move_backward_to keeping only the entries strictly before at.
RECURSIVE move_backward_to_lt(_, _)
move_backward_to_lt(m, at) ==
    IF m.reverse = << >> THEN m
    ELSE LET e == Top(m.reverse)
             popped == [m EXCEPT !.reverse = Pop(m.reverse)]
         IN  IF e.time < at
             THEN [popped EXCEPT !.reverse = Append(@, e)]
             ELSE move_backward_to_lt(
                    [popped EXCEPT !.current = apply_reverse(@, e.r),
                                   !.nrev = @ + 1,
                                   !.forward = Append(@, [time |-> e.time, delta |-> e.f, id |-> e.id])],
                    at)

RECURSIVE move_backward_to(_, _)
move_backward_to(m, at) ==
    IF m.reverse = << >> THEN m
    ELSE LET e == Top(m.reverse)
             popped == [m EXCEPT !.reverse = Pop(m.reverse)]
         IN  IF e.time <= at
             THEN [popped EXCEPT !.reverse = Append(@, e)]
             ELSE move_backward_to(
                    [popped EXCEPT !.current = apply_reverse(@, e.r),
                                   !.nrev = @ + 1,
                                   !.forward = Append(@, [time |-> e.time, delta |-> e.f, id |-> e.id])],
                    at)

\* move_forward_to stopping at an entry whose timestamp equals at.
RECURSIVE move_forward_to_strict(_, _)
move_forward_to_strict(m, at) ==
    IF m.forward = << >> THEN m
    ELSE LET e == Top(m.forward)
             popped == [m EXCEPT !.forward = Pop(m.forward)]
         IN  IF e.time >= at
             THEN [popped EXCEPT !.forward = Append(@, e)]
             ELSE LET a == apply_forward(popped.current, e.delta)
                  IN  move_forward_to_strict(
                        [popped EXCEPT !.current = a.state,
                                       !.nfwd = @ + 1,
                                       !.reverse = Append(@, [time |-> e.time, f |-> e.delta, r |-> a.ret, id |-> e.id])],
                        at)

RECURSIVE move_forward_to(_, _)
move_forward_to(m, at) ==
    IF m.forward = << >> THEN m
    ELSE LET e == Top(m.forward)
             popped == [m EXCEPT !.forward = Pop(m.forward)]
         IN  IF e.time > at
             THEN [popped EXCEPT !.forward = Append(@, e)]
             ELSE LET a == apply_forward(popped.current, e.delta)
                  IN  move_forward_to(
                        [popped EXCEPT !.current = a.state,
                                       !.nfwd = @ + 1,
                                       !.reverse = Append(@, [time |-> e.time, f |-> e.delta, r |-> a.ret, id |-> e.id])],
                        at)

move_to(m, at) == move_backward_to(move_forward_to(m, at), at)

\* The eviction loop discarding the entries at until as well.
RECURSIVE evict_front_gt(_, _)
evict_front_gt(m, until) ==
    IF m.reverse = << >> THEN m
    ELSE LET e == Head(m.reverse)
             popped == [m EXCEPT !.reverse = Tail(m.reverse)]
         IN  IF e.time > until
             THEN [popped EXCEPT !.reverse = << e >> \o @]
             ELSE evict_front_gt(popped, until)

\* The loop of forget_ancient_history: pop_front until an entry is kept.
RECURSIVE evict_front(_, _)
evict_front(m, until) ==
    IF m.reverse = << >> THEN m
    ELSE LET e == Head(m.reverse)
             popped == [m EXCEPT !.reverse = Tail(m.reverse)]
         IN  IF e.time >= until
             THEN [popped EXCEPT !.reverse = << e >> \o @]
             ELSE evict_front(popped, until)

\* change(delta, at) applied eagerly: a bug the deferred insertion avoids.
change_eager(m, delta, at, id) ==
    LET res == check_oldest(m, at)
    IN  IF res # Ok THEN [m |-> m, res |-> res]
        ELSE LET pushed == [m EXCEPT !.forward = Append(@, [time |-> at, delta |-> delta, id |-> id])]
             IN  [m |-> move_to(pushed, at), res |-> Ok]

\* change(delta, at) pushing the entry without seeking to at first.
change_no_seek(m, delta, at, id) ==
    LET res == check_oldest(m, at)
    IN  IF res # Ok THEN [m |-> m, res |-> res]
        ELSE [m |-> [m EXCEPT !.forward = Append(@, [time |-> at, delta |-> delta, id |-> id])],
              res |-> Ok]

\* TimeMachine::change; id is the ordinal of this accepted change.
change(m, delta, at, id) ==
    LET res == check_oldest(m, at)
    IN  IF res # Ok THEN [m |-> m, res |-> res]
        ELSE LET moved == move_to(m, at)
             IN  [m |-> [moved EXCEPT !.forward = Append(@, [time |-> at, delta |-> delta, id |-> id])],
                  res |-> Ok]

\* value_at seeking before it checks the boundary.
value_at_seek_first(m, at) ==
    LET res == check_oldest(m, at)
    IN  [m |-> move_to(m, at), res |-> res]

\* TimeMachine::value_at; on Ok the value returned is m.current.
value_at(m, at) ==
    LET res == check_oldest(m, at)
    IN  IF res # Ok THEN [m |-> m, res |-> res]
        ELSE [m |-> move_to(m, at), res |-> Ok]

\* forget_ancient_history evicting without seeking forward to until first.
forget_no_seek(m, until) ==
    [evict_front(m, until) EXCEPT !.oldest = Some(until)]

\* forget_ancient_history seeking with move_to, which also moves backward.
forget_move_to(m, until) ==
    [evict_front(move_to(m, until), until) EXCEPT !.oldest = Some(until)]

\* TimeMachine::forget_ancient_history
forget_ancient_history(m, until) ==
    [evict_front(move_forward_to(m, until), until) EXCEPT !.oldest = Some(until)]

----------------------------------------------------------------------------
\* The machine the variables hold, with the invocation counters reset, as
\* it stands at the start of a public call.
Machine ==
    [current |-> current, reverse |-> reverse, forward |-> forward, oldest |-> oldest,
     nfwd |-> 0, nrev |-> 0]

NoCall == [op |-> "new", at |-> 0, res |-> Ok]

\* No call in progress.
NoDelta == [op |-> "none", n |-> 0]
Idle ==
    [pc |-> "idle", op |-> "none", at |-> 0, delta |-> NoDelta, res |-> Ok,
     itF |-> 0, itB |-> 0, itE |-> 0, szF |-> 0, szB |-> 0, szE |-> 0,
     start |-> new(Initial)]

Init ==
    LET m == new(Initial)
    IN  /\ current = m.current
        /\ reverse = m.reverse
        /\ forward = m.forward
        /\ oldest = m.oldest
        /\ hist = << >>
        /\ lastCall = NoCall
        /\ lastUntil = None
        /\ discarded = << >>
        /\ loop = Idle

Store(m) ==
    /\ current' = m.current
    /\ reverse' = m.reverse
    /\ forward' = m.forward
    /\ oldest' = m.oldest

Change(delta, at) ==
    /\ Len(hist) < MaxChanges
    /\ LET out == change(Machine, delta, at, Len(hist) + 1)
       IN  /\ Store(out.m)
           /\ hist' = IF out.res = Ok
                      THEN Append(hist, [time |-> at, delta |-> delta])
                      ELSE hist
           /\ lastCall' = [op |-> "change", at |-> at, res |-> out.res]
    /\ UNCHANGED << lastUntil, discarded, loop >>

ValueAt(at) ==
    /\ LET out == value_at(Machine, at)
       IN  /\ Store(out.m)
           /\ lastCall' = [op |-> "value_at", at |-> at, res |-> out.res]
    /\ UNCHANGED << hist, lastUntil, discarded, loop >>

\* The ordinals of the entries of the logs of m that are in neither log of
\* n, oldest first, as pop_front meets them.
Dropped(m, n) ==
    LET kept == { n.reverse[i].id : i \in 1..Len(n.reverse) }
                \cup { n.forward[i].id : i \in 1..Len(n.forward) }
        gone(e) == e.id \notin kept
        ids(log) == [i \in 1..Len(log) |-> log[i].id]
        rev(log) == [i \in 1..Len(log) |-> log[Len(log) - i + 1]]
    IN  ids(SelectSeq(m.reverse, gone)) \o ids(SelectSeq(rev(m.forward), gone))

ForgetAncientHistory(until) ==
    /\ LET m == forget_ancient_history(Machine, until)
       IN  /\ Store(m)
           /\ discarded' = discarded \o Dropped(Machine, m)
           /\ lastCall' = [op |-> "forget_ancient_history", at |-> until, res |-> Ok]
    /\ lastUntil' = Some(until)
    /\ UNCHANGED << hist, loop >>

Next ==
    \/ \E delta \in Deltas, at \in Times : Change(delta, at)
    \/ \E at \in Times : ValueAt(at)
    \/ \E until \in Times : ForgetAncientHistory(until)

Spec == Init /\ [][Next]_vars

----------------------------------------------------------------------------
\* The same operations with their loops run one iteration per step.
\* loop.pc is the loop the call is in; itF, itB and itE count the iterations
\* of the loops of move_forward_to, move_backward_to and
\* forget_ancient_history in this call, szF, szB and szE are the lengths of
\* the log each loop scans as the loop starts, and start is the machine as
\* the call found it.

\* One iteration of the loop of move_forward_to that never breaks on an
\* entry later than at.
forward_iter_no_break(m, at) ==
    IF m.forward = << >> THEN [m |-> m, brk |-> TRUE]
    ELSE LET e == Top(m.forward)
             popped == [m EXCEPT !.forward = Pop(m.forward)]
         IN  IF e.time > at
             THEN [m |-> [popped EXCEPT !.forward = Append(@, e)], brk |-> FALSE]
             ELSE LET a == apply_forward(popped.current, e.delta)
                  IN  [m |-> [popped EXCEPT !.current = a.state,
                                            !.nfwd = @ + 1,
                                            !.reverse = Append(@, [time |-> e.time, f |-> e.delta, r |-> a.ret, id |-> e.id])],
                       brk |-> FALSE]

\* One iteration of the loop of move_forward_to; brk: the loop is left.
forward_iter(m, at) ==
    IF m.forward = << >> THEN [m |-> m, brk |-> TRUE]
    ELSE LET e == Top(m.forward)
             popped == [m EXCEPT !.forward = Pop(m.forward)]
         IN  IF e.time > at
             THEN [m |-> [popped EXCEPT !.forward = Append(@, e)], brk |-> TRUE]
             ELSE LET a == apply_forward(popped.current, e.delta)
                  IN  [m |-> [popped EXCEPT !.current = a.state,
                                            !.nfwd = @ + 1,
                                            !.reverse = Append(@, [time |-> e.time, f |-> e.delta, r |-> a.ret, id |-> e.id])],
                       brk |-> FALSE]

\* One iteration of the loop of move_backward_to.
backward_iter(m, at) ==
    IF m.reverse = << >> THEN [m |-> m, brk |-> TRUE]
    ELSE LET e == Top(m.reverse)
             popped == [m EXCEPT !.reverse = Pop(m.reverse)]
         IN  IF e.time <= at
             THEN [m |-> [popped EXCEPT !.reverse = Append(@, e)], brk |-> TRUE]
             ELSE [m |-> [popped EXCEPT !.current = apply_reverse(@, e.r),
                                        !.nrev = @ + 1,
                                        !.forward = Append(@, [time |-> e.time, delta |-> e.f, id |-> e.id])],
                   brk |-> FALSE]

\* One iteration of the loop of forget_ancient_history.
evict_iter(m, until) ==
    IF m.reverse = << >> THEN [m |-> m, brk |-> TRUE]
    ELSE LET e == Head(m.reverse)
             popped == [m EXCEPT !.reverse = Tail(m.reverse)]
         IN  IF e.time >= until
             THEN [m |-> [popped EXCEPT !.reverse = << e >> \o @], brk |-> TRUE]
             ELSE [m |-> popped, brk |-> FALSE]

\* A public call starts: change and value_at check the boundary, then every
\* call enters the loop of move_forward_to.
Begin(op, delta, at) ==
    /\ loop.pc = "idle"
    /\ op = "change" => Len(hist) < MaxStepChanges
    /\ LET res == IF op = "forget_ancient_history" THEN Ok ELSE check_oldest(Machine, at)
       IN  loop' = [Idle EXCEPT !.pc = IF res = Ok THEN "forward" ELSE "return",
                                !.op = op, !.at = at, !.delta = delta, !.res = res,
                                !.szF = Len(forward), !.start = Machine]
    /\ UNCHANGED << current, reverse, forward, oldest, hist, lastCall, lastUntil, discarded >>

ForwardIter ==
    /\ loop.pc = "forward"
    /\ LET out == forward_iter(Machine, loop.at)
       IN  /\ Store(out.m)
           /\ loop' = [loop EXCEPT
                         !.itF = @ + 1,
                         !.pc = IF ~out.brk THEN "forward"
                                ELSE IF loop.op = "forget_ancient_history" THEN "evict"
                                ELSE "backward",
                         !.szB = IF out.brk /\ loop.op # "forget_ancient_history"
                                 THEN Len(out.m.reverse) ELSE @,
                         !.szE = IF out.brk /\ loop.op = "forget_ancient_history"
                                 THEN Len(out.m.reverse) ELSE @]
    /\ UNCHANGED << hist, lastCall, lastUntil, discarded >>

BackwardIter ==
    /\ loop.pc = "backward"
    /\ LET out == backward_iter(Machine, loop.at)
       IN  /\ Store(out.m)
           /\ loop' = [loop EXCEPT !.itB = @ + 1,
                                   !.pc = IF out.brk THEN "return" ELSE "backward"]
    /\ UNCHANGED << hist, lastCall, lastUntil, discarded >>

EvictIter ==
    /\ loop.pc = "evict"
    /\ LET out == evict_iter(Machine, loop.at)
       IN  /\ Store(out.m)
           /\ loop' = [loop EXCEPT !.itE = @ + 1,
                                   !.pc = IF out.brk THEN "return" ELSE "evict"]
    /\ UNCHANGED << hist, lastCall, lastUntil, discarded >>

\* The statements after the loops, and the return.
Return ==
    /\ loop.pc = "return"
    /\ forward' = IF loop.op = "change" /\ loop.res = Ok
                  THEN Append(forward, [time |-> loop.at, delta |-> loop.delta, id |-> Len(hist) + 1])
                  ELSE forward
    /\ hist' = IF loop.op = "change" /\ loop.res = Ok
               THEN Append(hist, [time |-> loop.at, delta |-> loop.delta])
               ELSE hist
    /\ oldest' = IF loop.op = "forget_ancient_history" THEN Some(loop.at) ELSE oldest
    /\ loop' = Idle
    /\ UNCHANGED << current, reverse, lastCall, lastUntil, discarded >>

LoopStep == ForwardIter \/ BackwardIter \/ EvictIter \/ Return

NextSteps ==
    \/ \E delta \in Deltas, at \in Times : Begin("change", delta, at)
    \/ \E at \in Times : Begin("value_at", NoDelta, at)
    \/ \E until \in Times : Begin("forget_ancient_history", NoDelta, until)
    \/ ForwardIter
    \/ BackwardIter
    \/ EvictIter
    \/ Return

SpecSteps == Init /\ [][NextSteps]_vars

----------------------------------------------------------------------------
\* What the claims are stated with.

\* The timestamps and the change ordinals of the entries of a log.
Ids(log) == { log[i].id : i \in 1..Len(log) }
TimesOf(log) == { log[i].time : i \in 1..Len(log) }

\* The reference semantics of the timeline: the changes of h with timestamp
\* t, applied to s in the order of the calls that inserted them ...
RECURSIVE ApplyAllAt(_, _, _, _)
ApplyAllAt(h, t, i, s) ==
    IF i > Len(h) THEN s
    ELSE ApplyAllAt(h, t, i + 1,
                    IF h[i].time = t THEN apply_forward(s, h[i].delta).state ELSE s)

\* ... for every timestamp t..at in ascending order.
RECURSIVE ApplyUpTo(_, _, _, _)
ApplyUpTo(h, t, at, s) ==
    IF t > at THEN s ELSE ApplyUpTo(h, t + 1, at, ApplyAllAt(h, t, 1, s))

Reference(h, at) == ApplyUpTo(h, 0, at, Initial)

SeekOk == lastCall.op = "value_at" /\ lastCall.res = Ok

\* C1: with no eviction ever requested, value_at(at) returns the initial
\* state with exactly the changes inserted so far whose timestamp is <= at,
\* applied in ascending timestamp order and, within one timestamp, in the
\* order they were inserted.
C1_ChronologicalValue ==
    (oldest = None /\ lastCall.op = "value_at") =>
        current = Reference(hist, lastCall.at)

\* A value_at answered after a change was inserted before an earlier change,
\* with both of them at or before the queried timestamp.
C1_Witness ==
    /\ oldest = None
    /\ lastCall.op = "value_at"
    /\ Len(hist) >= 2
    /\ hist[2].time < hist[1].time
    /\ hist[1].time <= lastCall.at
    /\ hist[1].delta # hist[2].delta

\* C2: every value_at that succeeds returns what the same calls without the
\* forget_ancient_history calls would have returned (the reference value).
C2_EvictionKeepsAnswers ==
    SeekOk => current = Reference(hist, lastCall.at)

\* C3: change and value_at fail with TimeEvicted(at, until) exactly when at
\* is below the argument of the most recent forget_ancient_history call,
\* and never fail when there was no such call.
C3_EvictedExactlyBelowBoundary ==
    lastCall.op \in {"change", "value_at"} =>
        IF lastUntil # None /\ lastCall.at < lastUntil[1]
        THEN lastCall.res = TimeEvicted(lastCall.at, lastUntil[1])
        ELSE lastCall.res = Ok

\* A call refused below the boundary while a call at the boundary itself
\* would be served.
C3_Witness ==
    /\ lastCall.op \in {"change", "value_at"}
    /\ lastUntil # None
    /\ lastCall.at + 1 = lastUntil[1]
    /\ lastCall.res = TimeEvicted(lastCall.at, lastUntil[1])
    /\ value_at(Machine, lastUntil[1]).res = Ok

\* C4: once the retention boundary is set it is only ever replaced by a
\* value at least as large.
C4_BoundaryNeverLowered ==
    [][oldest # None => (oldest' # None /\ oldest'[1] >= oldest[1])]_vars

\* C5: a change or value_at call that returns TimeEvicted leaves the state,
\* both logs and the boundary as they were.
C5_FailedCallChangesNothing ==
    [][(lastCall'.op \in {"change", "value_at"} /\ lastCall'.res # Ok)
         => UNCHANGED << current, forward, reverse, oldest, hist >>]_vars

\* A refused call for a timestamp that a seek would have had to undo an
\* applied entry to reach.
C5_Witness ==
    /\ lastCall.op \in {"change", "value_at"}
    /\ lastCall.res # Ok
    /\ move_to(Machine, lastCall.at).current # current

\* C6: after a successful value_at(t1), a value_at(t2) at any timestamp
\* that is not evicted followed by value_at(t1) again returns the state the
\* first call returned and leaves both logs as the first call left them.
C6_SeekThereAndBack ==
    SeekOk =>
        \A t2 \in Times :
            check_oldest(Machine, t2) = Ok =>
                LET second == value_at(Machine, t2)
                    third  == value_at(second.m, lastCall.at)
                IN  /\ second.res = Ok
                    /\ third.res = Ok
                    /\ third.m.current = current
                    /\ third.m.forward = forward
                    /\ third.m.reverse = reverse

\* After value_at(t1) there is a later t2 whose seek applies a pending entry
\* and an earlier t2 whose seek undoes an applied one.
C6_Witness ==
    /\ SeekOk
    /\ \E t2 \in Times : value_at(Machine, t2).m.nfwd > 0 /\ value_at(Machine, t2).m.current # current
    /\ \E t2 \in Times : value_at(Machine, t2).res = Ok /\ value_at(Machine, t2).m.nrev > 0

\* C7: a value_at(at) right after a value_at(at) returns the same result,
\* calls neither apply_forward nor apply_reverse, and leaves the state, the
\* logs and the boundary unchanged.
C7_SecondSeekIsNoOp ==
    lastCall.op = "value_at" =>
        value_at(Machine, lastCall.at) = [m |-> Machine, res |-> lastCall.res]

\* After a successful value_at(at) with an entry exactly at at applied and
\* a later one pending.
C7_Witness ==
    /\ SeekOk
    /\ lastCall.at \in TimesOf(reverse)
    /\ forward # << >>

\* C8 as claimed: of two entries with the same timestamp that are both in
\* the forward log, the one inserted later is nearer the top.
C8_LaterInsertedNearerTop ==
    \A i, j \in 1..Len(forward) :
        (forward[i].time = forward[j].time /\ forward[i].id < forward[j].id) => i < j

\* C8 amended: of two entries with the same timestamp that are both in the
\* forward log, the one inserted earlier is nearer the top, so the forward
\* phase removes and applies them in insertion order.
C8_EarlierInsertedNearerTop ==
    \A i, j \in 1..Len(forward) :
        (forward[i].time = forward[j].time /\ forward[i].id < forward[j].id) => i > j

\* Two entries with the same timestamp are both in the forward log.
C8_Witness ==
    \E i, j \in 1..Len(forward) : i # j /\ forward[i].time = forward[j].time

\* C9: forget_ancient_history(until) leaves no entry with timestamp < until
\* in either log and none with timestamp <= until in the forward log, keeps
\* every entry with timestamp >= until that was in a log (unchanged, in one
\* of the logs), and sets the boundary to until.
C9_ForgetDiscardsExactlyOlder ==
    [][lastCall'.op = "forget_ancient_history" =>
        LET until  == lastCall'.at
            Stamp(log) == { << log[i].id, log[i].time >> : i \in 1..Len(log) }
            before == Stamp(reverse) \cup Stamp(forward)
            after  == Stamp(reverse') \cup Stamp(forward')
        IN  /\ \A t \in TimesOf(reverse') : t >= until
            /\ \A t \in TimesOf(forward') : t > until
            /\ after = { e \in before : e[2] >= until }
            /\ Len(reverse') + Len(forward') = Cardinality(after)
            /\ \A i \in 1..Len(reverse') : reverse'[i].f = hist[reverse'[i].id].delta
            /\ \A i \in 1..Len(forward') : forward'[i].delta = hist[forward'[i].id].delta
            /\ oldest' = Some(until)]_vars

\* An eviction that discarded an entry and kept one exactly at until.
C9_Witness ==
    /\ lastCall.op = "forget_ancient_history"
    /\ \E i \in 1..Len(hist) : hist[i].time < lastCall.at /\ i \notin Ids(reverse)
    /\ lastCall.at \in TimesOf(reverse)

\* C10: a successful change(delta, at) leaves the state at what value_at(at)
\* would have returned just before the call, with delta not applied; the
\* new entry is the top of the forward log and every other forward-log
\* entry is strictly later than at; and the next seek to a timestamp >= at
\* applies the new entry before any other.
C10_ChangeIsDeferred ==
    [][(lastCall'.op = "change" /\ lastCall'.res = Ok) =>
        LET at    == lastCall'.at
            id    == Len(hist')
            seek  == value_at(Machine, at).m
        IN  /\ hist' = Append(hist, hist'[id])
            /\ current' = seek.current
            /\ reverse' = seek.reverse
            /\ id \notin Ids(reverse')
            /\ forward' # << >>
            /\ Top(forward') = [time |-> at, delta |-> hist'[id].delta, id |-> id]
            /\ \A i \in 1..(Len(forward') - 1) : forward'[i].time > at
            /\ \A t \in Times :
                 LET m0 == [current |-> current', reverse |-> reverse', forward |-> forward',
                            oldest |-> oldest', nfwd |-> 0, nrev |-> 0]
                     m1 == move_to(m0, t)
                 IN  IF t >= at
                     THEN /\ Len(m1.reverse) > Len(reverse')
                          /\ m1.reverse[Len(reverse') + 1].id = id
                     ELSE id \notin Ids(m1.reverse)]_vars

\* A change accepted while an earlier change is applied: the new entry is
\* the forward-log top and the state shows the earlier change only.
C10_Witness ==
    /\ lastCall.op = "change"
    /\ lastCall.res = Ok
    /\ reverse # << >>
    /\ forward # << >>
    /\ Top(forward).id = Len(hist)
    /\ current # Initial

\* C11 as claimed: every forward-log timestamp is strictly greater than
\* every reverse-log timestamp (so a position p with reverse <= p < forward
\* exists).
C11_ForwardStrictlyAfterReverse ==
    \A f \in TimesOf(forward), r \in TimesOf(reverse) : f > r

\* C11 amended: there is a position p with every reverse-log timestamp <= p
\* and every forward-log timestamp >= p; that is, no forward-log timestamp
\* is smaller than a reverse-log timestamp (they can be equal).
C11_ForwardNotBeforeReverse ==
    /\ \A f \in TimesOf(forward), r \in TimesOf(reverse) : f >= r
    /\ \E p \in Times : /\ \A r \in TimesOf(reverse) : r <= p
                        /\ \A f \in TimesOf(forward) : f >= p

\* After a change at a timestamp that already has an applied entry: the
\* new entry is pending at the timestamp of the reverse log's newest entry.
C11_Witness ==
    /\ lastCall.op = "change"
    /\ lastCall.res = Ok
    /\ forward # << >>
    /\ reverse # << >>
    /\ Top(forward).time = Top(reverse).time

\* C12 as claimed: read top-to-bottom the forward log's timestamps strictly
\* increase.
C12_ForwardStrictlyIncreasing ==
    \A i, j \in 1..Len(forward) : i < j => forward[j].time < forward[i].time

\* C12 amended: read top-to-bottom the forward log's timestamps never
\* decrease; entries inserted at the same timestamp are adjacent.
C12_ForwardNonDecreasing ==
    \A i, j \in 1..Len(forward) : i < j => forward[j].time <= forward[i].time

\* A forward log with two entries at one timestamp, left by a backward
\* seek.
C12_Witness ==
    /\ SeekOk
    /\ Len(forward) >= 2
    /\ forward[Len(forward)].time = forward[Len(forward) - 1].time

\* C13 as claimed: read front-to-back the reverse log's timestamps strictly
\* increase.
C13_ReverseStrictlyIncreasing ==
    \A i, j \in 1..Len(reverse) : i < j => reverse[i].time < reverse[j].time

\* C13 amended: read front-to-back the reverse log's timestamps never
\* decrease; entries inserted at the same timestamp are adjacent.
C13_ReverseNonDecreasing ==
    \A i, j \in 1..Len(reverse) : i < j => reverse[i].time <= reverse[j].time

\* A reverse log with two entries at one timestamp, left by a forward seek.
C13_Witness ==
    /\ SeekOk
    /\ Len(reverse) >= 2
    /\ reverse[1].time = reverse[2].time

\* C14: whenever the boundary is set, neither log holds an entry with a
\* timestamp below it.
C14_NoEntryBelowBoundary ==
    oldest # None =>
        \A t \in TimesOf(reverse) \cup TimesOf(forward) : t >= oldest[1]

\* A boundary with an entry below it discarded and an applied entry
\* exactly at it.
C14_Witness ==
    /\ oldest # None
    /\ oldest[1] \in TimesOf(reverse)
    /\ \E i \in 1..Len(hist) : hist[i].time < oldest[1]

\* C15: after a successful value_at(at) every forward-log entry is strictly
\* later than at and every reverse-log entry is at or before at.
C15_SeekPartitionsAtTarget ==
    SeekOk =>
        /\ \A t \in TimesOf(forward) : t > lastCall.at
        /\ \A t \in TimesOf(reverse) : t <= lastCall.at

\* A value_at(at) with an entry exactly at at and one after.
C15_Witness ==
    /\ SeekOk
    /\ lastCall.at \in TimesOf(reverse)
    /\ \E t \in TimesOf(forward) : t > lastCall.at

\* The reverse log front-to-back followed by the forward log top-to-bottom.
Timeline ==
    [i \in 1..(Len(reverse) + Len(forward)) |->
        IF i <= Len(reverse) THEN reverse[i].time
        ELSE forward[Len(forward) - (i - Len(reverse)) + 1].time]

\* C16: the reverse log front-to-back followed by the forward log
\* top-to-bottom has non-decreasing timestamps.
C16_TimelineSorted ==
    \A i, j \in 1..Len(Timeline) : i < j => Timeline[i] <= Timeline[j]

\* An applied entry and a later pending one.
C16_Witness ==
    /\ Len(reverse) >= 1
    /\ Len(forward) >= 1
    /\ \E i, j \in 1..Len(Timeline) : i < j /\ Timeline[i] < Timeline[j]

\* The state after the forward deltas of the changes ids[i..] are applied
\* to s in that order.
RECURSIVE Replay(_, _, _)
Replay(ids, i, s) ==
    IF i > Len(ids) THEN s
    ELSE Replay(ids, i + 1, apply_forward(s, hist[ids[i]].delta).state)

\* From state s, applying the forward deltas of reverse[i..] in order gives
\* the current state, and each stored reverse delta is the one that
\* application returns.
RECURSIVE ReverseLogApplied(_, _)
ReverseLogApplied(i, s) ==
    IF i > Len(reverse) THEN s = current
    ELSE LET a == apply_forward(s, reverse[i].f)
         IN  a.ret = reverse[i].r /\ ReverseLogApplied(i + 1, a.state)

\* C17: every accepted change is in exactly one of the forward log, the
\* reverse log and the changes evicted by forget_ancient_history, once, with
\* its timestamp and forward delta as given to change; and the current
\* state is the initial state with the evicted changes and then the
\* reverse-log entries applied (and no forward-log entry).
C17_EntriesConserved ==
    LET gone == { discarded[i] : i \in 1..Len(discarded) }
    IN  /\ Cardinality(Ids(forward)) = Len(forward)
        /\ Cardinality(Ids(reverse)) = Len(reverse)
        /\ Cardinality(gone) = Len(discarded)
        /\ Ids(forward) \cap Ids(reverse) = {}
        /\ gone \cap (Ids(forward) \cup Ids(reverse)) = {}
        /\ Ids(forward) \cup Ids(reverse) \cup gone = 1..Len(hist)
        /\ \A i \in 1..Len(forward) :
              /\ forward[i].time = hist[forward[i].id].time
              /\ forward[i].delta = hist[forward[i].id].delta
        /\ \A i \in 1..Len(reverse) :
              /\ reverse[i].time = hist[reverse[i].id].time
              /\ reverse[i].f = hist[reverse[i].id].delta
        /\ ReverseLogApplied(1, Replay(discarded, 1, Initial))

\* After a seek, with one change evicted and one applied.
C17_Witness ==
    /\ SeekOk
    /\ discarded # << >>
    /\ reverse # << >>

\* The entries whose log differs between machines m and n.
Crossed(m, n) ==
    LET mf == { m.forward[i].id : i \in 1..Len(m.forward) }
        nf == { n.forward[i].id : i \in 1..Len(n.forward) }
        mr == { m.reverse[i].id : i \in 1..Len(m.reverse) }
        nr == { n.reverse[i].id : i \in 1..Len(n.reverse) }
    IN  ((mf \ nf) \cup (nf \ mf)) \cup ((mr \ nr) \cup (nr \ mr))

\* C18: the seek of every successful change or value_at call never
\* invokes both apply_forward and apply_reverse, and invokes them exactly
\* once per entry that changes log.
C18_SeekIsMinimal ==
    [][(lastCall'.op \in {"change", "value_at"} /\ lastCall'.res = Ok) =>
        LET out == move_to(Machine, lastCall'.at)
        IN  /\ ~(out.nfwd > 0 /\ out.nrev > 0)
            /\ out.nfwd + out.nrev = Cardinality(Crossed(Machine, out))
            /\ current' = out.current
            /\ reverse' = out.reverse
            /\ forward' = IF lastCall'.op = "change"
                          THEN Append(out.forward, Top(forward'))
                          ELSE out.forward]_vars

\* After a seek, a state from which one seek applies an entry and another
\* undoes one.
C18_Witness ==
    /\ SeekOk
    /\ \E at \in Times : check_oldest(Machine, at) = Ok /\ move_to(Machine, at).nfwd >= 1
    /\ \E at \in Times : check_oldest(Machine, at) = Ok /\ move_to(Machine, at).nrev >= 1

\* The state after the forward-log entries log[i], log[i-1], ..., log[1]
\* with timestamp <= until are applied to s, the top first.
RECURSIVE ApplyPending(_, _, _, _)
ApplyPending(log, i, until, s) ==
    IF i < 1 THEN s
    ELSE ApplyPending(log, i - 1, until,
                      IF log[i].time <= until THEN apply_forward(s, log[i].delta).state ELSE s)

\* C19: forget_ancient_history(until) never invokes apply_reverse; the
\* state it leaves is the current state with the pending entries of
\* timestamp <= until applied; and when there is no such entry the state
\* and the forward log are unchanged and the reverse log keeps exactly its
\* entries with timestamp >= until, in their order.
C19_ForgetOnlyMovesForward ==
    [][lastCall'.op = "forget_ancient_history" =>
        LET until == lastCall'.at
            out == forget_ancient_history(Machine, until)
            pending == { i \in 1..Len(forward) : forward[i].time <= until }
            kept(e) == e.time >= until
        IN  /\ out.nrev = 0
            /\ out.nfwd = Cardinality(pending)
            /\ reverse' = out.reverse
            /\ forward' = out.forward
            /\ current' = ApplyPending(forward, Len(forward), until, current)
            /\ pending = {} =>
                 /\ current' = current
                 /\ forward' = forward
                 /\ reverse' = SelectSeq(reverse, kept)]_vars

\* After an eviction at a timestamp before the position: an applied entry
\* later than until was left applied, and an older one was evicted.
C19_Witness ==
    /\ lastCall.op = "forget_ancient_history"
    /\ \E t \in TimesOf(reverse) : t > lastCall.at
    /\ discarded # << >>

\* C20: in every call the loop of move_forward_to, of move_backward_to and
\* of forget_ancient_history has, while it runs, removed one entry of the
\* log it scans per iteration made, and makes at most one iteration more
\* than that log held when the loop started; a call in progress can always
\* take its next step; and what the call leaves on return is what the
\* operation computes from the machine it found.
C20_LoopsTerminate ==
    /\ loop.itF <= loop.szF + 1
    /\ loop.itB <= loop.szB + 1
    /\ loop.itE <= loop.szE + 1
    /\ loop.pc = "forward" => loop.itF + Len(forward) = loop.szF
    /\ loop.pc = "backward" => loop.itB + Len(reverse) = loop.szB
    /\ loop.pc = "evict" => loop.itE + Len(reverse) = loop.szE
    /\ loop.pc # "idle" => ENABLED LoopStep
    /\ loop.pc = "return" =>
         LET big == IF loop.res # Ok THEN loop.start
                    ELSE IF loop.op = "forget_ancient_history"
                    THEN evict_front(move_forward_to(loop.start, loop.at), loop.at)
                    ELSE move_to(loop.start, loop.at)
         IN  /\ current = big.current
             /\ reverse = big.reverse
             /\ forward = big.forward
             /\ oldest = big.oldest
             /\ loop.res = Ok => loop.itF = big.nfwd + 1
             /\ (loop.res = Ok /\ loop.op # "forget_ancient_history") => loop.itB = big.nrev + 1

\* An eviction about to return whose forward loop applied two entries and
\* whose eviction loop discarded two, each with one more iteration to leave.
C20_Witness ==
    /\ loop.pc = "return"
    /\ loop.op = "forget_ancient_history"
    /\ loop.itF >= 3
    /\ loop.itE >= 3

====
